---- MODULE Spec2Model ----
(***************************************************************************)
(* Multi-node synchronisation of the rfid_access_control database.         *)
(*                                                                         *)
(* The storage layer (tables, column defaults, unique keys, triggers, the  *)
(* auto-increment partitioning and the sync_queue change capture) is       *)
(* translated from the SQL and configuration under src/.  The transport    *)
(* and the conflict detector, which the repository only declares (tables   *)
(* sync_queue, sync_metadata, replication_conflicts; the call of           *)
(* send_to_node), are modelled from the specification and say so.          *)
(***************************************************************************)
EXTENDS Integers, Sequences, FiniteSets, TLC

VARIABLES
    node_count,             \* auto-increment-increment: how many nodes share the id space
    nodes,                  \* nodes[n]: the ids of the rows of table nodes on node n
    users,                  \* users[n][id]: row of table users on node n, or NoRow
    logs,                   \* logs[n][id]: row of table logs on node n, or NoRow
    auto_increment,         \* auto_increment[n][t]: AUTO_INCREMENT counter of table t on n
    sync_queue,             \* sync_queue[n]: rows of table sync_queue on node n, by id
    sync_metadata,          \* sync_metadata[n][p][t]: row (p, t) of sync_metadata on n, or NoRow
    replication_conflicts,  \* replication_conflicts[n]: rows of that table on node n
    now,                    \* CURRENT_TIMESTAMP (the nodes' clocks agree)
    reachable,              \* reachable[n]: node n is on the network
    generated,              \* history: generated[n][t], the keys node n's counter handed out
    mutations,              \* history: mutations[n], committed writes on users and logs of n
    updates,                \* history: updates[n][id], UPDATEs executed on users row id of n
    applied,                \* history: applied[n], the changes node n executed, in order
    sync_position,          \* sync_position[n][p]: the queue entries of p that n applied
    local_data,             \* local_data[n]: the rows sync_table on n has selected and not yet sent
    received,               \* history: received[p], the row versions (node, id, version) sent to node p
    Last_Error,             \* Last_Error[n]: the replicated events (peer, id) the slave thread of n stopped on
    detected,               \* history: detected[n], what the detector of n found and did about each incoming change
    cycles,                 \* history: cycles[n][p], outcomes of the last cycles of n with p since the last local write
    \* UserManagementModal (user-management-modal.tsx)
    statusForm,             \* useState: identifier, identifierType, status
    activeForm,             \* useState: identifier, identifierType, isActive
    rfidForm,               \* useState: identifier, identifierType, newRfidTag
    searchResults,          \* useState: searchResults[formType] = user, loading, error
    loading,                \* useState: an update request is under way
    error,                  \* useState: the error message shown
    success,                \* useState: the success message shown
    render,                 \* the number of the current render; debouncedSearchUser is created anew in each
    timeouts,               \* the pending setTimeout calls of the debounced functions
    fetches,                \* the search requests in flight
    update_request,         \* the update request in flight, as a sequence of at most one body
    clock,                  \* the time, in quarters of a second
    changes,                \* history: the input changes of the identifier fields
    searched,               \* history: the calls of searchUser
    posted,                 \* history: the last update request sent, with the form it came from
    \* Dashboard and AuthPage (user-management-modal.tsx, auth-page.tsx)
    location,               \* window.location.href: "/" or "/dashboard"
    adminToken,             \* localStorage item adminToken, or NoToken
    login_requests,         \* the login requests in flight
    fetcher_requests,       \* the dashboard fetches in flight
    signed_in,              \* history: no logout and no 401 since the last successful login
    logsData,               \* useSWR data: how many logs there are, and how many match a filter
    searchTerm,             \* useState: the filter typed
    itemsPerPage,           \* useState
    currentPage             \* useState

dbvars == <<node_count, nodes, users, logs, auto_increment, sync_queue, sync_metadata,
          replication_conflicts, now, reachable, generated, mutations, updates,
          applied, sync_position, local_data, received, Last_Error, detected,
          cycles>>

modalvars == <<statusForm, activeForm, rfidForm, searchResults, loading, error,
               success, render, timeouts, fetches, update_request, clock,
               changes, searched, posted>>

dashvars == <<location, adminToken, login_requests, fetcher_requests, signed_in,
              logsData, searchTerm, itemsPerPage, currentPage>>

uivars == <<modalvars, dashvars>>

vars == <<dbvars, uivars>>

----------------------------------------------------------------------------
(* Bounds of the model. *)

MaxNodes == 3
MaxKey == 4
MaxTime == 2
MaxQueue == 2
MaxCycles == 2
MaxUpdates == 2
MaxChanges == 3
MaxClock == 4
MaxRender == 7
MaxLogs == 11
MaxRequests == 2

----------------------------------------------------------------------------
(* Values. *)

NoRow == [absent |-> TRUE]
NULL == -1

\* NULL in a TEXT column.
NULL_TEXT == "NULL"

AllNodes == 1..MaxNodes
Nodes == 1..node_count
Keys == 1..MaxKey
Tables == {"users", "logs"}
AutoTables == {"users", "logs", "sync_queue"}
Tags == {"T1", "T2"}
Statuses == {"IDLE", "In", "Out"}

Max(a, b) == IF a >= b THEN a ELSE b

----------------------------------------------------------------------------
(* Storage layer: column defaults, auto-increment, triggers (from src/).   *)

\* auto-increment-increment is the node count, the same on every node.
auto_increment_increment == node_count

\* A slip in the per-node configuration: every node keeps the offset of RPi 1.
auto_increment_offset_same(n) == 1

\* auto-increment-offset is the node's ordinal (RPi 1: 1, RPi 2: 2).
auto_increment_offset(n) == n

\* The key the server hands out for a counter value c: the smallest value
\* >= c of the form offset + k * increment.
RECURSIVE NextAutoInc(_, _)
NextAutoInc(n, c) ==
    IF c >= auto_increment_offset(n)
       /\ (c - auto_increment_offset(n)) % auto_increment_increment = 0
    THEN c
    ELSE NextAutoInc(n, c + 1)

\* users: status DEFAULT 'IDLE', version DEFAULT 1, the three timestamps
\* DEFAULT CURRENT_TIMESTAMP.  (name, nic, user_type, last_seen_at, last_gate_id,
\* last_booth_id, last_result play no part in synchronisation and are left out.)
NewUser(tag, node, t) ==
    [rfid_tag |-> tag, status |-> "IDLE", node_id |-> node, version |-> 1,
     created_at |-> t, updated_at |-> t, last_sync_at |-> t]

\* logs: synced DEFAULT false, sync_timestamp NULL.
NewLog(user, node, t) ==
    [user_id |-> user, node_id |-> node, timestamp |-> t, result |-> "PASS",
     synced |-> FALSE, sync_timestamp |-> NULL]

\* UNIQUE(rfid_tag): no other row of the table carries the tag.
TagFree(tbl, id, tag) ==
    \A k \in Keys : (k # id /\ tbl[k] # NoRow) => tbl[k].rfid_tag # tag

EmptyTable == [k \in Keys |-> NoRow]

\* A trigger that trusts the version the statement supplied.
trg_users_keep_supplied(old, new, t) ==
    [new EXCEPT !.last_sync_at = t, !.updated_at = t]

\* BEFORE UPDATE ON users: NEW.version = COALESCE(OLD.version, 0) + 1,
\* NEW.last_sync_at = NEW.updated_at = CURRENT_TIMESTAMP.
trg_users_before_update(old, new, t) ==
    [new EXCEPT !.version = (IF old.version = NULL THEN 0 ELSE old.version) + 1,
                !.last_sync_at = t,
                !.updated_at = t]

\* A trigger that leaves the row as the statement supplied it.
trg_logs_keep_supplied(old, new) == new

\* BEFORE UPDATE ON logs: a sync_timestamp that is set or changed marks the
\* row synced.
trg_logs_before_update_sync(old, new) ==
    IF /\ new.sync_timestamp # NULL
       /\ (old.sync_timestamp = NULL \/ old.sync_timestamp # new.sync_timestamp)
    THEN [new EXCEPT !.synced = TRUE]
    ELSE new

\* AFTER UPDATE ON users: INSERT INTO sync_queue (table_name, record_id,
\* operation, data) with JSON_OBJECT(id, name, rfid_tag, status); created_at
\* DEFAULT CURRENT_TIMESTAMP, synced DEFAULT FALSE.
users_sync_trigger(qid, id, new, t) ==
    [id |-> qid, table_name |-> "users", record_id |-> id, operation |-> "UPDATE",
     data |-> [id |-> id, rfid_tag |-> new.rfid_tag, status |-> new.status],
     created_at |-> t, synced |-> FALSE]

----------------------------------------------------------------------------
(* Identity partitioning: local inserts and rows copied from a peer.       *)

\* INSERT INTO users (rfid_tag, node_id) VALUES (tag, n) on node n.
InsertUser(n, tag) ==
    LET id == NextAutoInc(n, auto_increment[n]["users"]) IN
    /\ id <= MaxKey
    /\ TagFree(users[n], id, tag)
    /\ n \in nodes[n]
    /\ users' = [users EXCEPT ![n][id] = NewUser(tag, n, now)]
    /\ auto_increment' = [auto_increment EXCEPT ![n]["users"] = id + 1]
    /\ generated' = [generated EXCEPT ![n]["users"] = @ \cup {id}]
    /\ mutations' = [mutations EXCEPT ![n] = @ + 1]
    /\ cycles' = [m \in AllNodes |-> [p \in AllNodes |-> <<>>]]
    /\ UNCHANGED <<uivars, local_data, received, Last_Error, detected, node_count, nodes, logs, sync_queue, sync_metadata,
                   replication_conflicts, now, reachable, updates, applied, sync_position>>

\* INSERT INTO logs (user_id, node_id, ...) VALUES (user, n, ...) on node n.
InsertLog(n, user) ==
    LET id == NextAutoInc(n, auto_increment[n]["logs"]) IN
    /\ id <= MaxKey
    /\ user # NULL => users[n][user] # NoRow
    /\ n \in nodes[n]
    /\ logs' = [logs EXCEPT ![n][id] = NewLog(user, n, now)]
    /\ auto_increment' = [auto_increment EXCEPT ![n]["logs"] = id + 1]
    /\ generated' = [generated EXCEPT ![n]["logs"] = @ \cup {id}]
    /\ mutations' = [mutations EXCEPT ![n] = @ + 1]
    /\ cycles' = [m \in AllNodes |-> [p \in AllNodes |-> <<>>]]
    /\ UNCHANGED <<uivars, local_data, received, Last_Error, detected, node_count, nodes, users, sync_queue, sync_metadata,
                   replication_conflicts, now, reachable, updates, applied, sync_position>>

\* A row event of peer p replayed on node n (binlog-format = ROW): the row
\* arrives with its key, and the counter of n moves past the largest key.
\* SHOW SLAVE STATUS on node n: Slave_SQL_Running is Yes while Last_Error is
\* empty; an event that fails stops the thread.
Slave_SQL_Running(n) == Last_Error[n] = {}

ReplicateUser(p, n, id) ==
    /\ p # n
    /\ Slave_SQL_Running(n)
    /\ users[p][id] # NoRow
    /\ users[n][id] = NoRow
    /\ TagFree(users[n], id, users[p][id].rfid_tag)
    /\ users[p][id].node_id \in nodes[n] \cup {NULL}
    /\ users' = [users EXCEPT ![n][id] = users[p][id]]
    /\ auto_increment' =
           [auto_increment EXCEPT ![n]["users"] = Max(@, id + 1)]
    /\ UNCHANGED <<uivars, local_data, received, Last_Error, detected, node_count, nodes, logs, sync_queue, sync_metadata,
                   replication_conflicts, now, reachable, generated, mutations,
                   updates, applied, sync_position, cycles>>

\* The inserted users row id of node p reaches node n, where another row
\* carries its rfid_tag: the UNIQUE index rejects the insert (duplicate
\* entry), the slave thread stops with the event in Last_Error, and no table
\* changes.
ReplicateUserDuplicate(p, n, id) ==
    /\ p # n
    /\ Slave_SQL_Running(n)
    /\ users[p][id] # NoRow
    /\ users[n][id] = NoRow
    /\ ~TagFree(users[n], id, users[p][id].rfid_tag)
    /\ Last_Error' = [Last_Error EXCEPT ![n] = @ \cup {<<p, id>>}]
    /\ UNCHANGED <<uivars, local_data, received, detected, node_count, nodes, users, logs, auto_increment,
                   sync_queue, sync_metadata, replication_conflicts, now,
                   reachable, generated, mutations, updates, applied,
                   sync_position, cycles>>

ReplicateLog(p, n, id) ==
    /\ p # n
    /\ Slave_SQL_Running(n)
    /\ logs[p][id] # NoRow
    /\ logs[n][id] = NoRow
    /\ logs[p][id].node_id \in nodes[n]
    /\ logs' = [logs EXCEPT ![n][id] =
                   [logs[p][id] EXCEPT !.user_id =
                       IF @ # NULL /\ users[n][@] = NoRow THEN NULL ELSE @]]
    /\ auto_increment' =
           [auto_increment EXCEPT ![n]["logs"] = Max(@, id + 1)]
    /\ UNCHANGED <<uivars, local_data, received, Last_Error, detected, node_count, nodes, users, sync_queue, sync_metadata,
                   replication_conflicts, now, reachable, generated, mutations,
                   updates, applied, sync_position, cycles>>

\* The rows of sync_metadata after the schema script ran on every node.
\* rfid_config_setup.sql inserts none; rfid_schema_V1.sql inserts the rows
\* ('node1', 'users') and ('node1', 'logs') with the column defaults.
sync_metadata_seed(seeded) ==
    [n \in AllNodes |-> [p \in AllNodes |-> [t \in Tables |->
        IF seeded /\ p = 1
        THEN [last_sync_timestamp |-> 0, sync_status |-> "SUCCESS",
              error_message |-> NULL_TEXT]
        ELSE NoRow]]]

\* The three forms of the modal and the fields their searches are kept under.
FormTypes == {"status", "active", "rfid"}

\* localStorage.getItem("adminToken") of a browser that holds no token.
NoToken == "null"

\* searchResults of one form before any search: no user, not loading, no error.
NoResult == [user |-> "null", loading |-> FALSE, error |-> ""]

\* The state of UserManagementModal after its first render (useState
\* initial values).
InitModal ==
    /\ statusForm = [identifier |-> "", identifierType |-> "rfidTag", status |-> ""]
    /\ activeForm = [identifier |-> "", identifierType |-> "rfidTag", isActive |-> ""]
    /\ rfidForm = [identifier |-> "", identifierType |-> "rfidTag", newRfidTag |-> ""]
    /\ searchResults = [f \in FormTypes |-> NoResult]
    /\ loading = FALSE
    /\ error = ""
    /\ success = ""
    /\ render = 1
    /\ timeouts = {}
    /\ fetches = {}
    /\ update_request = <<>>
    /\ clock = 0
    /\ changes = <<>>
    /\ searched = <<>>
    /\ posted = <<>>

\* The state of DashboardContent after its first render, in a browser that
\* holds a token or none.
InitDashboard ==
    /\ login_requests = 0
    /\ fetcher_requests = 0
    /\ logsData = [logs |-> 0, matching |-> 0]
    /\ searchTerm = ""
    /\ itemsPerPage = 10
    /\ currentPage = 1

\* The browser of an administrator who has logged in and opened the
\* dashboard.
InitUI ==
    /\ InitModal
    /\ InitDashboard
    /\ location = "/dashboard"
    /\ adminToken = "token"
    /\ signed_in = TRUE

InitRest ==
    /\ InitUI
    /\ nodes = [n \in AllNodes |-> 1..node_count]
    /\ sync_queue = [n \in AllNodes |-> <<>>]
    /\ replication_conflicts = [n \in AllNodes |-> <<>>]
    /\ now = 0
    /\ reachable = [n \in AllNodes |-> TRUE]
    /\ mutations = [n \in AllNodes |-> 0]
    /\ updates = [n \in AllNodes |-> [k \in Keys |-> 0]]
    /\ applied = [n \in AllNodes |-> <<>>]
    /\ sync_position = [n \in AllNodes |-> [p \in AllNodes |-> {}]]
    /\ detected = [n \in AllNodes |-> {}]
    /\ Last_Error = [n \in AllNodes |-> {}]
    /\ local_data = [n \in AllNodes |-> [open |-> FALSE, rows |-> {}]]
    /\ received = [n \in AllNodes |-> {}]
    /\ cycles = [n \in AllNodes |-> [p \in AllNodes |-> <<>>]]

InitPartition ==
    /\ node_count \in 1..MaxNodes
    /\ users = [n \in AllNodes |-> EmptyTable]
    /\ logs = [n \in AllNodes |-> EmptyTable]
    /\ auto_increment = [n \in AllNodes |-> [t \in AutoTables |-> 1]]
    /\ generated = [n \in AllNodes |-> [t \in Tables |-> {}]]
    /\ sync_metadata = sync_metadata_seed(FALSE)
    /\ InitRest

NextPartition ==
    \/ \E n \in Nodes, tag \in Tags : InsertUser(n, tag)
    \/ \E n \in Nodes : InsertLog(n, NULL)
    \/ \E p \in Nodes, n \in Nodes, id \in Keys : ReplicateUser(p, n, id)

SpecPartition == InitPartition /\ [][NextPartition]_vars

\* C2: every key a node generates is congruent to its ordinal modulo the node
\* count, and no key is generated by two nodes (with two nodes: node 1 only
\* odd keys, node 2 only even keys).
PartitionProperty ==
    /\ \A n \in Nodes, t \in Tables : \A k \in generated[n][t] :
           k % node_count = n % node_count
    /\ \A n \in Nodes, m \in Nodes, t \in Tables :
           n # m => generated[n][t] \cap generated[m][t] = {}
    /\ node_count = 2 =>
           \A t \in Tables :
               /\ \A k \in generated[1][t] : k % 2 = 1
               /\ \A k \in generated[2][t] : k % 2 = 0

\* Node 1 generated a key after a larger-keyed row of node 2 had reached it.
PartitionWitness ==
    /\ node_count >= 2
    /\ \E k \in generated[2]["users"], j \in generated[1]["users"] :
           /\ users[1][k] # NoRow
           /\ j > k

----------------------------------------------------------------------------
(* Local writes as the schema and its triggers execute them.               *)

\* UPDATE users SET status = st, version = ver WHERE id = id, on node n: the
\* BEFORE trigger rewrites the row, the AFTER trigger queues the change, all
\* in the statement's transaction.
UpdateUser(n, id, st, ver) ==
    LET old == users[n][id]
        new == trg_users_before_update(
                   old, [old EXCEPT !.status = st, !.version = ver], now)
        qid == NextAutoInc(n, auto_increment[n]["sync_queue"])
    IN
    /\ old # NoRow
    /\ Len(sync_queue[n]) < MaxQueue
    /\ users' = [users EXCEPT ![n][id] = new]
    /\ sync_queue' = [sync_queue EXCEPT ![n] =
                         Append(@, users_sync_trigger(qid, id, new, now))]
    /\ auto_increment' = [auto_increment EXCEPT ![n]["sync_queue"] = qid + 1]
    /\ mutations' = [mutations EXCEPT ![n] = @ + 1]
    /\ updates' = [updates EXCEPT ![n][id] = @ + 1]
    /\ cycles' = [m \in AllNodes |-> [p \in AllNodes |-> <<>>]]
    /\ UNCHANGED <<uivars, local_data, received, Last_Error, detected, node_count, nodes, logs, sync_metadata, replication_conflicts, now,
                   reachable, generated, applied, sync_position>>

\* DELETE FROM users WHERE id = id, on node n: fk_logs_user sets the user_id
\* of the row's logs to NULL.
DeleteUser(n, id) ==
    /\ users[n][id] # NoRow
    /\ users' = [users EXCEPT ![n][id] = NoRow]
    /\ logs' = [logs EXCEPT ![n] = [k \in Keys |->
                   IF @[k] # NoRow /\ @[k].user_id = id
                   THEN [@[k] EXCEPT !.user_id = NULL]
                   ELSE @[k]]]
    /\ mutations' = [mutations EXCEPT ![n] = @ + 1]
    /\ updates' = [updates EXCEPT ![n][id] = 0]
    /\ cycles' = [m \in AllNodes |-> [p \in AllNodes |-> <<>>]]
    /\ UNCHANGED <<uivars, local_data, received, Last_Error, detected, node_count, nodes, auto_increment, sync_queue, sync_metadata,
                   replication_conflicts, now, reachable, generated, applied, sync_position>>

\* UPDATE logs SET synced = s, sync_timestamp = ts WHERE id = id, on node n:
\* the BEFORE trigger rewrites the row.  No trigger queues a change of logs.
UpdateLog(n, id, s, ts) ==
    LET old == logs[n][id]
        new == trg_logs_before_update_sync(
                   old, [old EXCEPT !.synced = s, !.sync_timestamp = ts])
    IN
    /\ old # NoRow
    /\ logs' = [logs EXCEPT ![n][id] = new]
    /\ cycles' = [m \in AllNodes |-> [p \in AllNodes |-> <<>>]]
    /\ UNCHANGED <<uivars, local_data, received, Last_Error, detected, node_count, nodes, users, auto_increment,
                   sync_queue, sync_metadata, replication_conflicts, now,
                   reachable, generated, mutations, updates, applied,
                   sync_position>>

\* DELETE FROM nodes WHERE id = d, on node n. fk_logs_node,
\* fk_sync_metadata_node and fk_conflicts_node are ON DELETE RESTRICT: the
\* statement fails while a row of those tables names d. fk_users_node is
\* ON DELETE SET NULL: the node_id of the users rows that name d becomes NULL.
\* A foreign-key action fires no trigger.
DeleteNode(n, d) ==
    /\ d \in nodes[n]
    /\ \A k \in Keys : logs[n][k] # NoRow => logs[n][k].node_id # d
    /\ \A t \in Tables : sync_metadata[n][d][t] = NoRow
    /\ \A i \in 1..Len(replication_conflicts[n]) :
           replication_conflicts[n][i].node_id # d
    /\ nodes' = [nodes EXCEPT ![n] = @ \ {d}]
    /\ users' = [users EXCEPT ![n] = [k \in Keys |->
                    IF @[k] # NoRow /\ @[k].node_id = d
                    THEN [@[k] EXCEPT !.node_id = NULL]
                    ELSE @[k]]]
    /\ cycles' = [m \in AllNodes |-> [p \in AllNodes |-> <<>>]]
    /\ UNCHANGED <<uivars, local_data, received, Last_Error, detected, node_count, logs, auto_increment, sync_queue, sync_metadata,
                   replication_conflicts, now, reachable, generated, mutations,
                   updates, applied, sync_position>>

\* CURRENT_TIMESTAMP advances.
Tick ==
    /\ now < MaxTime
    /\ now' = now + 1
    /\ UNCHANGED <<uivars, local_data, received, Last_Error, detected, node_count, nodes, users, logs, auto_increment, sync_queue,
                   sync_metadata, replication_conflicts, reachable, generated,
                   mutations, updates, applied, sync_position, cycles>>

InitWrites ==
    /\ node_count = 2
    /\ users = [n \in AllNodes |-> EmptyTable]
    /\ logs = [n \in AllNodes |-> EmptyTable]
    /\ auto_increment = [n \in AllNodes |-> [t \in AutoTables |-> 1]]
    /\ generated = [n \in AllNodes |-> [t \in Tables |-> {}]]
    /\ sync_metadata = sync_metadata_seed(FALSE)
    /\ InitRest

\* Writes of different nodes touch different databases: the writes of node 1
\* are explored.
NextWrites ==
    \/ \E tag \in Tags : InsertUser(1, tag)
    \/ \E id \in Keys, st \in Statuses, ver \in {1, 3} : UpdateUser(1, id, st, ver)
    \/ \E id \in Keys : DeleteUser(1, id)
    \/ \E u \in Keys \cup {NULL} : InsertLog(1, u)
    \/ \E d \in Nodes : DeleteNode(1, d)

SpecWrites == InitWrites /\ [][NextWrites]_vars

\* C9: the change queue of a node holds exactly one entry per committed insert,
\* update and delete on users and logs of that node.
CaptureEveryMutation ==
    \A n \in Nodes : Len(sync_queue[n]) = mutations[n]

----------------------------------------------------------------------------
(* Change Recorder, Sync Transport, Conflict Detector.  The repository     *)
(* declares their tables and calls send_to_node without defining it: this  *)
(* part follows the specification (sections 4.2 to 4.5) and runs on the    *)
(* storage layer above.                                                    *)

Peers(n) == Nodes \ {n}

\* A change-queue entry: the columns of sync_queue, the snapshot of the whole
\* row (the detector reads its version) and the peers that acknowledged it.
ChangeEntry(qid, table, id, op, row, t) ==
    [id |-> qid, table_name |-> table, record_id |-> id, operation |-> op,
     data |-> row, created_at |-> t, synced |-> FALSE, acked |-> {}]

\* A write of users routed through the recorder: the trigger's version bump,
\* and the change queued in the same transaction.
RecorderUpdateUser(n, id, st, ver) ==
    LET old == users[n][id]
        new == trg_users_before_update(
                   old, [old EXCEPT !.status = st, !.version = ver], now)
        qid == NextAutoInc(n, auto_increment[n]["sync_queue"])
    IN
    /\ old # NoRow
    /\ Len(sync_queue[n]) < MaxQueue
    /\ users' = [users EXCEPT ![n][id] = new]
    /\ sync_queue' = [sync_queue EXCEPT ![n] =
                         Append(@, ChangeEntry(qid, "users", id, "UPDATE", new, now))]
    /\ auto_increment' = [auto_increment EXCEPT ![n]["sync_queue"] = qid + 1]
    /\ mutations' = [mutations EXCEPT ![n] = @ + 1]
    /\ updates' = [updates EXCEPT ![n][id] = @ + 1]
    /\ cycles' = [m \in AllNodes |-> [p \in AllNodes |-> <<>>]]
    /\ UNCHANGED <<uivars, local_data, received, Last_Error, detected, node_count, nodes, logs, sync_metadata, replication_conflicts, now,
                   reachable, generated, applied, sync_position>>

\* The database of node n as the detector sees it while it applies a batch
\* from peer p.
DBof(n, p) ==
    [users |-> users[n], logs |-> logs[n], conflicts |-> replication_conflicts[n],
     position |-> sync_position[n][p], updates |-> updates[n],
     applied |-> applied[n], detected |-> detected[n], blocked |-> {},
     errors |-> {}]

\* fk_conflicts_log: replication_conflicts.record_id REFERENCES logs(id).
fk_conflicts_log(logsTbl, record_id) == logsTbl[record_id] # NoRow

\* The entries of queue q that change the record of e.
OwnChanges(q, e) ==
    {i \in DOMAIN q : q[i].table_name = e.table_name /\ q[i].record_id = e.record_id}

SetMax(S) == CHOOSE x \in S : \A y \in S : y <= x

\* Last writer wins by the writes' timestamps, the lower ordinal on a tie: the
\* change e of peer p against the last write node n made to the record.
RemoteWins(n, p, e, q) ==
    \/ OwnChanges(q, e) = {}
    \/ LET mine == q[SetMax(OwnChanges(q, e))] IN
       \/ e.created_at > mine.created_at
       \/ (e.created_at = mine.created_at /\ p < n)

\* The entry cannot be applied: nothing changes but the batch's record of it.
Failed(db, e) ==
    [db EXCEPT !.blocked = @ \cup {<<e.table_name, e.record_id>>},
               !.errors = @ \cup {e.table_name}]

\* What the detector notes about the incoming entry e of peer p: the versions
\* it compared, whether the row had a local change p has not acknowledged, and
\* what became of the entry.
Detection(p, e, local, pending, outcome) ==
    [peer |-> p, id |-> e.id, remote_version |-> e.data.version,
     local_version |-> local.version, pending |-> pending, outcome |-> outcome]

\* An incoming update of users on node n.  It is an UPDATE_CONFLICT when its
\* version is not the local version + 1 or the record has a local change that
\* p has not acknowledged; the winner's value is written by an UPDATE (so the
\* trigger bumps the version) together with the conflict record.
ApplyUserUpdate(n, p, e, db, q, t) ==
    LET local == db.users[e.record_id]
        pending == \E i \in OwnChanges(q, e) : p \notin q[i].acked
        conflict == e.data.version # local.version + 1 \/ pending
        value == IF ~conflict \/ RemoteWins(n, p, e, q)
                 THEN e.data.status ELSE local.status
        new == trg_users_before_update(local, [local EXCEPT !.status = value], t)
        rec == [table_name |-> "users", record_id |-> e.record_id,
                conflict_type |-> "UPDATE_CONFLICT", node_id |-> p,
                conflict_data |-> e.data, resolved |-> TRUE, created_at |-> t]
    IN
    IF local = NoRow THEN Failed(db, e)
    ELSE IF conflict /\ ~fk_conflicts_log(db.logs, e.record_id)
    THEN [Failed(db, e) EXCEPT !.detected = @ \cup {Detection(p, e, local, pending, "FAILED")}]
    ELSE [db EXCEPT !.users[e.record_id] = new,
                    !.conflicts = IF conflict THEN Append(@, rec) ELSE @,
                    !.position = @ \cup {e.id},
                    !.updates[e.record_id] = @ + 1,
                    !.detected = @ \cup {Detection(p, e, local, pending,
                        IF conflict THEN "UPDATE_CONFLICT" ELSE "CLEAN")},
                    !.applied = Append(@, [peer |-> p, id |-> e.id,
                        state |-> IF conflict THEN "CONFLICTED" ELSE "APPLIED"])]

\* The detector that executes every entry it is handed.
ApplyOneAgain(n, p, e, db, q, t) == ApplyUserUpdate(n, p, e, db, q, t)

\* One incoming change: an entry already applied is a no-op; an entry behind a
\* failed change of the same record waits for the next cycle.
ApplyOne(n, p, e, db, q, t) ==
    IF e.id \in db.position THEN db
    ELSE IF <<e.table_name, e.record_id>> \in db.blocked THEN db
    ELSE ApplyUserUpdate(n, p, e, db, q, t)

\* A batch handled from its newest entry to its oldest.
RECURSIVE ApplyAllNewestFirst(_, _, _, _, _, _)
ApplyAllNewestFirst(n, p, es, db, q, t) ==
    IF es = <<>> THEN db
    ELSE ApplyOne(n, p, Head(es), ApplyAllNewestFirst(n, p, Tail(es), db, q, t), q, t)

\* A batch that is given up at the first entry that fails.
RECURSIVE ApplyAllAbort(_, _, _, _, _, _)
ApplyAllAbort(n, p, es, db, q, t) ==
    IF es = <<>> \/ db.errors # {} THEN db
    ELSE ApplyAllAbort(n, p, Tail(es), ApplyOne(n, p, Head(es), db, q, t), q, t)

\* A batch, in queue order (creation time, then entry id).
RECURSIVE ApplyAll(_, _, _, _, _, _)
ApplyAll(n, p, es, db, q, t) ==
    IF es = <<>> THEN db
    ELSE ApplyAll(n, p, Tail(es), ApplyOne(n, p, Head(es), db, q, t), q, t)

\* An entry is marked synced at the first acknowledgement.
MarkAckedFirst(q, ids, p, peers) ==
    [i \in DOMAIN q |->
        IF q[i].id \in ids
        THEN [q[i] EXCEPT !.acked = @ \cup {p}, !.synced = TRUE]
        ELSE q[i]]

\* Peer p acknowledged the entries ids of queue q: an entry is marked synced
\* once every peer has.
MarkAcked(q, ids, p, peers) ==
    [i \in DOMAIN q |->
        IF q[i].id \in ids
        THEN [q[i] EXCEPT !.acked = @ \cup {p},
                          !.synced = peers \subseteq (q[i].acked \cup {p})]
        ELSE q[i]]

\* A commit that marks the row and never clears the mark.
sync_table_commit_in_progress(m, t) ==
    [m EXCEPT !.last_sync_timestamp = t, !.sync_status = "IN_PROGRESS"]

\* sync_table's last statement on the row (p, table) of sync_metadata, reached
\* when no send raised: UPDATE sync_metadata SET last_sync_timestamp = NOW().
\* No statement of the repository writes sync_status or error_message.
sync_table_commit(m, t) == [m EXCEPT !.last_sync_timestamp = t]

\* The UPDATE selects by table_name alone: on node n it reaches every row of
\* the tables tbls that exists, and inserts none.
sync_table_update(meta, tbls, t) ==
    [p \in AllNodes |-> [tb \in Tables |->
        IF tb \in tbls /\ meta[p][tb] # NoRow
        THEN sync_table_commit(meta[p][tb], t)
        ELSE meta[p][tb]]]

\* The last cycle of the history h has started and not ended.
InFlight(h) == IF h = <<>> THEN FALSE ELSE h[Len(h)] = "STARTED"

\* The outcomes of the last MaxCycles cycles; the outcome of a cycle takes the
\* place of its "STARTED".
Outcome(h, o) ==
    LET g == IF InFlight(h) THEN SubSeq(h, 1, Len(h) - 1) ELSE h
    IN IF Len(g) < MaxCycles THEN Append(g, o) ELSE Append(Tail(g), o)

QueueIds(q) == {q[i].id : i \in DOMAIN q}

\* One cycle of node n with peer p, both on the network: n pulls and applies
\* the entries of p it has not applied and acknowledges them, then pushes its
\* own entries, which p applies and acknowledges.
SyncCycle(n, p) ==
    LET qn == sync_queue[n]
        qp == sync_queue[p]
        pulled == ApplyAll(n, p, qp, DBof(n, p), qn, now)
        qp2 == MarkAcked(qp, pulled.position \cap QueueIds(qp), n, Peers(p))
        sent == SelectSeq(qn, LAMBDA e : p \notin e.acked)
        pushed == ApplyAll(p, n, sent, DBof(p, n), qp2, now)
        qn2 == MarkAcked(qn, pushed.position \cap QueueIds(qn), p, Peers(n))
        errs == pulled.errors \cup pushed.errors
    IN
    /\ n # p
    /\ reachable[n] /\ reachable[p]
    /\ users' = [users EXCEPT ![n] = pulled.users, ![p] = pushed.users]
    /\ replication_conflicts' = [replication_conflicts EXCEPT
                                    ![n] = pulled.conflicts, ![p] = pushed.conflicts]
    /\ sync_position' = [sync_position EXCEPT ![n][p] = pulled.position,
                                              ![p][n] = pushed.position]
    /\ updates' = [updates EXCEPT ![n] = pulled.updates, ![p] = pushed.updates]
    /\ applied' = [applied EXCEPT ![n] = pulled.applied, ![p] = pushed.applied]
    /\ detected' = [detected EXCEPT ![n] = pulled.detected, ![p] = pushed.detected]
    /\ sync_queue' = [sync_queue EXCEPT ![n] = qn2, ![p] = qp2]
    /\ sync_metadata' = [sync_metadata EXCEPT
                            ![n] = sync_table_update(@, Tables \ errs, now)]
    /\ cycles' = [cycles EXCEPT ![n][p] = Outcome(@, IF errs = {} THEN "OK" ELSE "APPLY")]
    /\ UNCHANGED <<uivars, local_data, received, Last_Error, node_count, nodes, logs, auto_increment, now, reachable, generated,
                   mutations>>

\* A cycle whose push reached p but whose acknowledgement timed out: p applied
\* the entries, n keeps them unacknowledged and retries in the next cycle.
SyncCycleAckLost(n, p) ==
    LET qn == sync_queue[n]
        sent == SelectSeq(qn, LAMBDA e : p \notin e.acked)
        pushed == ApplyAll(p, n, sent, DBof(p, n), sync_queue[p], now)
    IN
    /\ n # p
    /\ reachable[n] /\ reachable[p]
    /\ sent # <<>>
    /\ users' = [users EXCEPT ![p] = pushed.users]
    /\ replication_conflicts' = [replication_conflicts EXCEPT ![p] = pushed.conflicts]
    /\ sync_position' = [sync_position EXCEPT ![p][n] = pushed.position]
    /\ updates' = [updates EXCEPT ![p] = pushed.updates]
    /\ applied' = [applied EXCEPT ![p] = pushed.applied]
    /\ detected' = [detected EXCEPT ![p] = pushed.detected]
    /\ cycles' = [cycles EXCEPT ![n][p] = Outcome(@, "TIMEOUT")]
    /\ UNCHANGED <<uivars, local_data, received, Last_Error, node_count, nodes, logs, auto_increment, sync_queue, sync_metadata,
                   now, reachable, generated, mutations>>

\* A cycle of node n while p cannot be reached.
SyncCycleUnreachable(n, p) ==
    /\ n # p
    /\ ~(reachable[n] /\ reachable[p])
    /\ cycles' = [cycles EXCEPT ![n][p] = Outcome(@, "UNREACHABLE")]
    /\ UNCHANGED <<uivars, local_data, received, Last_Error, detected, node_count, nodes, users, logs, auto_increment, sync_queue,
                   sync_metadata, replication_conflicts, now, reachable,
                   generated, mutations, updates, applied, sync_position>>

\* sync_table of node n is under way: the rows are selected and the sends to
\* p are in flight.  Nothing is written to sync_metadata at this point.
SyncCycleBegin(n, p) ==
    /\ n # p
    /\ ~InFlight(cycles[n][p])
    /\ cycles' = [cycles EXCEPT ![n][p] = Outcome(@, "STARTED")]
    /\ UNCHANGED <<uivars, local_data, received, Last_Error, detected, node_count, nodes, users, logs, auto_increment, sync_queue,
                   sync_metadata, replication_conflicts, now, reachable,
                   generated, mutations, updates, applied, sync_position>>

\* The cycle is cancelled in flight: sync_table is left before its UPDATE and
\* its commit.
SyncCycleCancel(n, p) ==
    /\ InFlight(cycles[n][p])
    /\ cycles' = [cycles EXCEPT ![n][p] = Outcome(@, "CANCELLED")]
    /\ UNCHANGED <<uivars, local_data, received, Last_Error, detected, node_count, nodes, users, logs, auto_increment, sync_queue,
                   sync_metadata, replication_conflicts, now, reachable,
                   generated, mutations, updates, applied, sync_position>>

\* ifconfig eth0 down / up on node n.
Disconnect(n) ==
    /\ reachable[n]
    /\ reachable' = [reachable EXCEPT ![n] = FALSE]
    /\ UNCHANGED <<uivars, local_data, received, Last_Error, detected, node_count, nodes, users, logs, auto_increment, sync_queue,
                   sync_metadata, replication_conflicts, now, generated,
                   mutations, updates, applied, sync_position, cycles>>

Reconnect(n) ==
    /\ ~reachable[n]
    /\ reachable' = [reachable EXCEPT ![n] = TRUE]
    /\ UNCHANGED <<uivars, local_data, received, Last_Error, detected, node_count, nodes, users, logs, auto_increment, sync_queue,
                   sync_metadata, replication_conflicts, now, generated,
                   mutations, updates, applied, sync_position, cycles>>

\* Two nodes that hold user 1; the log row 1, when there is one, was written
\* by node 1 and has reached node 2.
InitSync ==
    /\ node_count = 2
    /\ users = [n \in AllNodes |->
                   [EmptyTable EXCEPT ![1] = NewUser("T1", 1, 0)]]
    /\ \E seeded \in BOOLEAN :
           /\ logs = [n \in AllNodes |->
                         IF seeded THEN [EmptyTable EXCEPT ![1] = NewLog(1, 1, 0)]
                         ELSE EmptyTable]
           /\ auto_increment = [n \in AllNodes |-> [t \in AutoTables |->
                  IF t = "users" \/ (t = "logs" /\ seeded) THEN 2 ELSE 1]]
           /\ generated = [n \in AllNodes |-> [t \in Tables |->
                  IF n = 1 /\ t = "logs" /\ seeded THEN {1} ELSE {}]]
    /\ sync_metadata = sync_metadata_seed(FALSE)
    /\ InitRest

\* The gate of node 1 checks users in, the gate of node 2 checks them out.
GateStatus(n) == IF n = 1 THEN "In" ELSE "Out"

\* The local writes made so far.
Writes == mutations[1] + mutations[2]

NextSync ==
    \/ \E n \in Nodes, ver \in {1, 3} :
           /\ Writes < MaxUpdates
           /\ RecorderUpdateUser(n, 1, GateStatus(n), ver)
    \/ \E n \in Nodes, p \in Nodes : SyncCycle(n, p)
    \/ SyncCycleAckLost(1, 2)
    \/ Writes < MaxUpdates /\ Tick

SpecSync == InitSync /\ [][NextSync]_vars

\* Node 1 writes log rows while node 2 leaves and rejoins the network.
InitLogs ==
    /\ node_count = 2
    /\ users = [n \in AllNodes |->
                   [EmptyTable EXCEPT ![1] = NewUser("T1", 1, 0)]]
    /\ logs = [n \in AllNodes |-> EmptyTable]
    /\ auto_increment = [n \in AllNodes |->
                            [t \in AutoTables |-> IF t = "users" THEN 2 ELSE 1]]
    /\ generated = [n \in AllNodes |-> [t \in Tables |-> {}]]
    /\ \E seeded \in BOOLEAN : sync_metadata = sync_metadata_seed(seeded)
    /\ InitRest

NextLogs ==
    \/ \E u \in {1, NULL} : InsertLog(1, u)
    \/ \E id \in Keys : reachable[1] /\ reachable[2] /\ ReplicateLog(1, 2, id)
    \/ SyncCycle(1, 2)
    \/ SyncCycleUnreachable(1, 2)
    \/ Disconnect(2)
    \/ Reconnect(2)
    \/ Tick

SpecLogs == InitLogs /\ [][NextLogs]_vars

----------------------------------------------------------------------------
(* Properties of the synchronisation of users.                             *)

Last(h) == h[Len(h)]

\* Node n ran a cycle with p to its end after the last local write.
Completed(n, p) == cycles[n][p] # <<>> /\ Last(cycles[n][p]) \in {"OK", "APPLY"}

\* Writes have stopped and each node has completed a cycle with the other.
Quiet == Completed(1, 2) /\ Completed(2, 1)

\* What a users row holds, apart from the times of its writes.
Content(row) ==
    IF row = NoRow THEN row
    ELSE [rfid_tag |-> row.rfid_tag, status |-> row.status,
          node_id |-> row.node_id, version |-> row.version]

\* C1: once writes have stopped and both nodes have completed cycles with each
\* other, every users record has the same content and the same version on
\* both nodes.
Convergence ==
    Quiet => \A id \in Keys : Content(users[1][id]) = Content(users[2][id])

Concurrent ==
    /\ Len(sync_queue[1]) = 1 /\ sync_queue[1][1].data.version = 2
    /\ Len(sync_queue[2]) = 1 /\ sync_queue[2][1].data.version = 2

\* The node whose update is the later one, node 1 when the times are equal.
Winner ==
    IF sync_queue[2][1].created_at > sync_queue[1][1].created_at THEN 2 ELSE 1

\* C4: after concurrent updates of user 1 and the cycles that follow, both
\* nodes hold the update with the later timestamp, and on equal timestamps
\* the update of the node with the lower ordinal.
NoSplitBrain ==
    Concurrent /\ Quiet =>
        /\ users[1][1].status = GateStatus(Winner)
        /\ users[2][1].status = GateStatus(Winner)

\* C5: user 1 at version 1 is set to In on node 1 and to Out on node 2 before
\* either syncs; after the cycles both nodes hold the same status at version
\* 3 and a resolved conflict record for users/1 exists.
ConcurrentUpdateScenario ==
    Concurrent /\ Quiet =>
        /\ users[1][1].status = users[2][1].status
        /\ users[1][1].version = 3 /\ users[2][1].version = 3
        /\ \E n \in Nodes : \E i \in DOMAIN replication_conflicts[n] :
               /\ replication_conflicts[n][i].table_name = "users"
               /\ replication_conflicts[n][i].record_id = 1
               /\ replication_conflicts[n][i].resolved

\* The entry of the queue of node p with the id qid.
EntryOf(p, qid) ==
    CHOOSE e \in {sync_queue[p][i] : i \in DOMAIN sync_queue[p]} : e.id = qid

\* Entry a was created before entry b: by creation time, then by entry id.
CreatedBefore(a, b) ==
    \/ a.created_at < b.created_at
    \/ (a.created_at = b.created_at /\ a.id < b.id)

ConflictsRecorded ==
    Concurrent /\ Completed(1, 2) =>
        \A n \in Nodes : \E i \in DOMAIN replication_conflicts[n] :
            /\ replication_conflicts[n][i].table_name = "users"
            /\ replication_conflicts[n][i].record_id = 1
            /\ replication_conflicts[n][i].conflict_type = "UPDATE_CONFLICT"

\* How many times node n has brought the entry qid of peer p to a terminal state.
Terminals(n, p, qid) ==
    Cardinality({i \in DOMAIN applied[n] :
                    applied[n][i].peer = p /\ applied[n][i].id = qid})

\* C20: a change is brought to a terminal state at most once, and every
\* change of peer p that node n received in a completed cycle is in exactly
\* one of APPLIED and CONFLICTED.
ExactlyOneTerminalState ==
    \A n \in Nodes, p \in Nodes :
        n # p =>
            \A i \in DOMAIN sync_queue[p] :
                /\ Terminals(n, p, sync_queue[p][i].id) <= 1
                /\ Completed(n, p) => Terminals(n, p, sync_queue[p][i].id) = 1

----------------------------------------------------------------------------
(* Properties of the synchronisation of logs and of sync_metadata.         *)

\* C6: when node 2 was unreachable for cycles of node 1 after node 1 wrote
\* its log rows, and the next cycle succeeded, every one of those rows that
\* is on node 2 is marked synced = TRUE there.
OfflineCatchUp ==
    LET h == cycles[1][2] IN
    (Len(h) >= 2 /\ h[Len(h) - 1] = "UNREACHABLE" /\ Last(h) = "OK") =>
        \A k \in generated[1]["logs"] :
            logs[2][k] # NoRow => logs[2][k].synced

\* The rows node n holds in sync_metadata for table tb.
MetadataRows(n, tb) == {sync_metadata[n][p][tb] : p \in AllNodes} \ {NoRow}

\* C7: node 1 holds a users row of sync_metadata that is FAILED with an error
\* message after a cycle whose peer was unreachable, and SUCCESS with no
\* error message after a cycle that succeeded.
MetadataTracksCycles ==
    LET h == cycles[1][2] IN
    h # <<>> =>
        /\ Last(h) = "UNREACHABLE" =>
               \E m \in MetadataRows(1, "users") :
                   m.sync_status = "FAILED" /\ m.error_message # NULL_TEXT
        /\ Last(h) = "OK" =>
               \E m \in MetadataRows(1, "users") :
                   m.sync_status = "SUCCESS" /\ m.error_message = NULL_TEXT

----------------------------------------------------------------------------
(* Three nodes: the changes of node 1 and their acknowledgements.          *)

InitQueue ==
    /\ node_count = 3
    /\ users = [n \in AllNodes |->
                   [EmptyTable EXCEPT ![1] = NewUser("T1", 1, 0)]]
    /\ logs = [n \in AllNodes |-> EmptyTable]
    /\ auto_increment = [n \in AllNodes |->
                            [t \in AutoTables |-> IF t = "users" THEN 2 ELSE 1]]
    /\ generated = [n \in AllNodes |-> [t \in Tables |-> {}]]
    /\ sync_metadata = sync_metadata_seed(FALSE)
    /\ InitRest

NextQueue ==
    \/ \E st \in {"In", "Out"} :
           /\ mutations[1] < MaxUpdates
           /\ RecorderUpdateUser(1, 1, st, 1)
    \/ \E p \in {2, 3} : SyncCycle(1, p)
    \/ SyncCycleUnreachable(1, 3)
    \/ Disconnect(3)
    \/ Reconnect(3)

SpecQueue == InitQueue /\ [][NextQueue]_vars

----------------------------------------------------------------------------
(* The cycles of node 1 with node 2 and what they leave in sync_metadata.  *)

InitMeta ==
    /\ node_count = 2
    /\ users = [n \in AllNodes |->
                   [EmptyTable EXCEPT ![1] = NewUser("T1", 1, 0)]]
    /\ logs = [n \in AllNodes |-> EmptyTable]
    /\ auto_increment = [n \in AllNodes |->
                            [t \in AutoTables |-> IF t = "users" THEN 2 ELSE 1]]
    /\ generated = [n \in AllNodes |-> [t \in Tables |-> {}]]
    /\ \E seeded \in BOOLEAN : sync_metadata = sync_metadata_seed(seeded)
    /\ InitRest

NextMeta ==
    \/ mutations[1] < MaxUpdates /\ RecorderUpdateUser(1, 1, "In", 1)
    \/ SyncCycleBegin(1, 2)
    \/ SyncCycleCancel(1, 2)
    \/ SyncCycle(1, 2)
    \/ SyncCycleAckLost(1, 2)
    \/ SyncCycleUnreachable(1, 2)
    \/ Disconnect(2)
    \/ Reconnect(2)
    \/ Tick

SpecMeta == InitMeta /\ [][NextMeta]_vars

\* C11: after a cycle that hit a transport error, a timeout or an application
\* error, node 1 holds a users row of sync_metadata that is FAILED with the
\* error detail, and every entry the peer has not acknowledged is in the
\* queue, unsynced.
FailedCycleRecorded ==
    LET h == cycles[1][2] IN
    (h # <<>> /\ Last(h) \in {"UNREACHABLE", "TIMEOUT", "APPLY"}) =>
        /\ \E m \in MetadataRows(1, "users") :
               m.sync_status = "FAILED" /\ m.error_message # NULL_TEXT
        /\ \A i \in DOMAIN sync_queue[1] :
               2 \notin sync_queue[1][i].acked => ~sync_queue[1][i].synced

\* C13: once node 1 has made a sync attempt with node 2, it holds a row of
\* sync_metadata for each table of the pair.
OneRowPerPair ==
    (cycles[1][2] # <<>> /\ ~InFlight(cycles[1][2])) =>
        \A tb \in Tables :
            sync_metadata[1][1][tb] # NoRow \/ sync_metadata[1][2][tb] # NoRow

-----------------------------------------------------------------------------
(* Frame conditions of the rows of users and logs.                         *)

\* C16: no two user records anywhere in the system carry the same rfid_tag,
\* also while the nodes are partitioned and each accepts inserts.
CredentialGloballyUnique ==
    \A n, m \in Nodes : \A i, j \in Keys :
        (users[n][i] # NoRow /\ users[m][j] # NoRow /\ i # j)
            => users[n][i].rfid_tag # users[m][j].rfid_tag

\* C18: after a log row is inserted no step deletes it or changes a field of
\* it other than synced and sync_timestamp.
LogsAppendOnly ==
    [][\A n \in Nodes : \A k \in Keys :
          logs[n][k] # NoRow =>
              /\ logs'[n][k] # NoRow
              /\ logs'[n][k].user_id = logs[n][k].user_id
              /\ logs'[n][k].node_id = logs[n][k].node_id
              /\ logs'[n][k].timestamp = logs[n][k].timestamp
              /\ logs'[n][k].result = logs[n][k].result]_vars

\* C19: a user or log row whose node_id is set keeps that node_id for as long
\* as the row exists.
NodeIdImmutable ==
    [][\A n \in Nodes : \A k \in Keys :
          /\ (users[n][k] # NoRow /\ users[n][k].node_id # NULL
                 /\ users'[n][k] # NoRow)
                => users'[n][k].node_id = users[n][k].node_id
          /\ (logs[n][k] # NoRow /\ logs'[n][k] # NoRow)
                => logs'[n][k].node_id = logs[n][k].node_id]_vars
-----------------------------------------------------------------------------
(* Batches with changes of two records.                                    *)

\* Two nodes that hold the users 1 and 3, both created on node 1; the log
\* row 1, when there is one, was written by node 1 and has reached node 2.
\* No log row has the id 3.
InitBatch ==
    /\ node_count = 2
    /\ users = [n \in AllNodes |->
                   [EmptyTable EXCEPT ![1] = NewUser("T1", 1, 0),
                                      ![3] = NewUser("T2", 1, 0)]]
    /\ \E seeded \in BOOLEAN :
           /\ logs = [n \in AllNodes |->
                         IF seeded THEN [EmptyTable EXCEPT ![1] = NewLog(1, 1, 0)]
                         ELSE EmptyTable]
           /\ auto_increment = [n \in AllNodes |-> [t \in AutoTables |->
                  IF t = "users" THEN 4
                  ELSE IF t = "logs" /\ seeded THEN 2 ELSE 1]]
           /\ generated = [n \in AllNodes |-> [t \in Tables |->
                  IF n = 1 /\ t = "logs" /\ seeded THEN {1} ELSE {}]]
    /\ sync_metadata = sync_metadata_seed(FALSE)
    /\ InitRest

\* Node 1 changes both users; node 2 changes user 3, once.
NextBatch ==
    \/ \E id \in {1, 3} : RecorderUpdateUser(1, id, GateStatus(1), 1)
    \/ mutations[2] = 0 /\ RecorderUpdateUser(2, 3, GateStatus(2), 1)
    \/ \E n \in Nodes, p \in Nodes : SyncCycle(n, p)
    \/ Writes < MaxUpdates /\ Tick

SpecBatch == InitBatch /\ [][NextBatch]_vars

\* The entries of the queue of node p that node n has applied.
AppliedFrom(n, p) ==
    {i \in DOMAIN sync_queue[p] : sync_queue[p][i].id \in sync_position[n][p]}

-----------------------------------------------------------------------------
(* Classification of incoming changes.                                     *)

\* C21: every incoming update the detector has handled was classified
\* UPDATE_CONFLICT when its version was not the local version + 1 or the row
\* had a local change the peer had not seen, and was applied without a conflict
\* record otherwise.
ClassifiedByVersion ==
    \A n \in Nodes : \A d \in detected[n] :
        d.outcome =
            IF d.remote_version # d.local_version + 1 \/ d.pending
            THEN "UPDATE_CONFLICT" ELSE "CLEAN"
\* Two nodes insert users while apart and exchange the inserted rows.
InitDuplicate ==
    /\ node_count = 2
    /\ users = [n \in AllNodes |-> EmptyTable]
    /\ logs = [n \in AllNodes |-> EmptyTable]
    /\ auto_increment = [n \in AllNodes |-> [t \in AutoTables |-> 1]]
    /\ generated = [n \in AllNodes |-> [t \in Tables |-> {}]]
    /\ sync_metadata = sync_metadata_seed(FALSE)
    /\ InitRest

NextDuplicate ==
    \/ \E n \in Nodes, tag \in Tags : InsertUser(n, tag)
    \/ \E p \in Nodes, n \in Nodes, id \in Keys : ReplicateUser(p, n, id)
    \/ \E p \in Nodes, n \in Nodes, id \in Keys : ReplicateUserDuplicate(p, n, id)
    \/ Tick

SpecDuplicate == InitDuplicate /\ [][NextDuplicate]_vars

\* C22: an incoming insert whose rfid_tag a local row with another id carries
\* is not applied and is kept as an unresolved INSERT_DUPLICATE row of
\* replication_conflicts.
DuplicateInsertRecorded ==
    \A n \in Nodes : \A ev \in Last_Error[n] :
        /\ users[n][ev[2]] = NoRow
        /\ \E i \in DOMAIN replication_conflicts[n] :
               /\ replication_conflicts[n][i].table_name = "users"
               /\ replication_conflicts[n][i].record_id = ev[2]
               /\ replication_conflicts[n][i].conflict_type = "INSERT_DUPLICATE"
               /\ replication_conflicts[n][i].resolved = FALSE

-----------------------------------------------------------------------------
(* Updates of the sync columns of logs.                                    *)

\* Node 1 writes log rows and updates their sync columns; an update supplies
\* NULL, the current time, or leaves sync_timestamp as it is.
InitStamp ==
    /\ node_count = 2
    /\ users = [n \in AllNodes |-> EmptyTable]
    /\ logs = [n \in AllNodes |-> EmptyTable]
    /\ auto_increment = [n \in AllNodes |-> [t \in AutoTables |-> 1]]
    /\ generated = [n \in AllNodes |-> [t \in Tables |-> {}]]
    /\ sync_metadata = sync_metadata_seed(FALSE)
    /\ InitRest

NextStamp ==
    \/ InsertLog(1, NULL)
    \/ \E id \in Keys, s \in BOOLEAN :
           /\ logs[1][id] # NoRow
           /\ \E ts \in {NULL, now, logs[1][id].sync_timestamp} :
                  UpdateLog(1, id, s, ts)
    \/ Tick

SpecStamp == InitStamp /\ [][NextStamp]_vars

\* C23: an update of a log row that stores a sync_timestamp which is not NULL
\* and differs from the one the row had (NULL included) leaves the row with
\* synced = TRUE, whatever value the statement supplied.
StampSetsSynced ==
    [][\A n \in Nodes : \A k \in Keys :
          (/\ logs[n][k] # NoRow
           /\ logs'[n][k] # NoRow
           /\ logs'[n][k].sync_timestamp # NULL
           /\ logs'[n][k].sync_timestamp # logs[n][k].sync_timestamp)
              => logs'[n][k].synced]_vars

\* A row was stamped at a time after its insertion and is synced.
StampSetsSyncedWitness ==
    \E k \in Keys :
        /\ logs[1][k] # NoRow
        /\ logs[1][k].sync_timestamp # NULL
        /\ logs[1][k].sync_timestamp > logs[1][k].timestamp
        /\ logs[1][k].synced

\* The statement of C23 as a property of states: a log row whose
\* sync_timestamp is not NULL (only an update stores one) has synced = TRUE.
StampedIsSynced ==
    \A n \in Nodes : \A k \in Keys :
        (logs[n][k] # NoRow /\ logs[n][k].sync_timestamp # NULL)
            => logs[n][k].synced
-----------------------------------------------------------------------------
(* DatabaseSync.sync_table on the users table: the timestamp cursor.       *)

\* SELECT * FROM users WHERE last_sync_at > (SELECT last_sync_timestamp FROM
\* sync_metadata WHERE table_name = 'users'), on node n.  Without a row of
\* sync_metadata the subquery is NULL and no row is selected.
sync_table_select(n) ==
    LET cursor == MetadataRows(n, "users")
        rows == {k \in Keys :
                    /\ users[n][k] # NoRow
                    /\ \E m \in cursor :
                           users[n][k].last_sync_at > m.last_sync_timestamp}
    IN
    /\ ~local_data[n].open
    /\ Cardinality(cursor) <= 1
    /\ local_data' = [local_data EXCEPT ![n] =
           [open |-> TRUE, rows |-> {<<k, users[n][k].version>> : k \in rows}]]
    /\ UNCHANGED <<uivars, received, Last_Error, detected, node_count, nodes, users, logs,
                   auto_increment, sync_queue, sync_metadata,
                   replication_conflicts, now, reachable, generated, mutations,
                   updates, applied, sync_position, cycles>>

\* The rest of sync_table when no send raises: local_data goes to every
\* remote node, then UPDATE sync_metadata SET last_sync_timestamp = NOW() and
\* the commit.
sync_table_send(n) ==
    /\ local_data[n].open
    /\ received' = [p \in AllNodes |->
           IF p \in Peers(n)
           THEN received[p] \cup {<<n, r[1], r[2]>> : r \in local_data[n].rows}
           ELSE received[p]]
    /\ sync_metadata' = [sync_metadata EXCEPT
                            ![n] = sync_table_update(@, {"users"}, now)]
    /\ local_data' = [local_data EXCEPT ![n] = [open |-> FALSE, rows |-> {}]]
    /\ UNCHANGED <<uivars, Last_Error, detected, node_count, nodes, users, logs,
                   auto_increment, sync_queue, replication_conflicts, now,
                   reachable, generated, mutations, updates, applied,
                   sync_position, cycles>>

\* A send raises: sync_table ends before its UPDATE, the cursor stays.
sync_table_raises(n) ==
    /\ local_data[n].open
    /\ local_data' = [local_data EXCEPT ![n] = [open |-> FALSE, rows |-> {}]]
    /\ UNCHANGED <<uivars, received, Last_Error, detected, node_count, nodes, users, logs,
                   auto_increment, sync_queue, sync_metadata,
                   replication_conflicts, now, reachable, generated, mutations,
                   updates, applied, sync_position, cycles>>

\* Two nodes hold user 1 as inserted; node 1 holds the users row of
\* sync_metadata the schema seeds.
InitCursor ==
    /\ node_count = 2
    /\ users = [n \in AllNodes |->
                   [EmptyTable EXCEPT ![1] = NewUser("T1", 1, 0)]]
    /\ logs = [n \in AllNodes |-> EmptyTable]
    /\ auto_increment = [n \in AllNodes |->
                            [t \in AutoTables |-> IF t = "users" THEN 2 ELSE 1]]
    /\ generated = [n \in AllNodes |-> [t \in Tables |-> {}]]
    /\ sync_metadata = sync_metadata_seed(TRUE)
    /\ InitRest

\* The writes come after the second in which the schema script ran.
NextCursor ==
    \/ now > 0 /\ \E st \in Statuses : UpdateUser(1, 1, st, 1)
    \/ sync_table_select(1)
    \/ sync_table_send(1)
    \/ sync_table_raises(1)
    \/ Tick

SpecCursor == InitCursor /\ [][NextCursor]_vars

\* C24: a users row of node 1 that was modified and whose current version
\* node 2 has not been sent is in the batch sync_table holds, or a later
\* select picks it up.
CursorNeverSkips ==
    \A k \in Keys :
        (/\ users[1][k] # NoRow
         /\ updates[1][k] > 0
         /\ <<1, k, users[1][k].version>> \notin received[2])
            => \/ \E m \in MetadataRows(1, "users") :
                      users[1][k].last_sync_at > m.last_sync_timestamp
               \/ /\ local_data[1].open
                  /\ <<k, users[1][k].version>> \in local_data[1].rows
-----------------------------------------------------------------------------
(* UserManagementModal: the three update forms and the user search.        *)

\* What is typed into an identifier field.
Idents == {"", "A", "B"}

\* identifier.trim()
Trim(identifier) == IF identifier = " " THEN "" ELSE identifier

\* debounce(searchUser, 500): the wait, in quarters of a second.
wait == 2

\* updateData.k = v: the property is added, or overwritten when it is there.
SetProperty(updateData, k, v) ==
    [x \in DOMAIN updateData \cup {k} |-> IF x = k THEN v ELSE updateData[x]]

\* The form of type f, and the three forms with the form of type f replaced.
FormOf(f) ==
    IF f = "status" THEN statusForm
    ELSE IF f = "active" THEN activeForm ELSE rfidForm

SetForm(f, form) ==
    /\ statusForm' = IF f = "status" THEN form ELSE statusForm
    /\ activeForm' = IF f = "active" THEN form ELSE activeForm
    /\ rfidForm' = IF f = "rfid" THEN form ELSE rfidForm

\* executedFunction of the debounced function created in render c, called
\* with (identifier, formType) at time t: clearTimeout of the timer this
\* function set before, then setTimeout(later, wait).
executedFunction(ts, c, identifier, f, t, change) ==
    {x \in ts : x.closure # c} \cup
        {[closure |-> c, identifier |-> identifier, formType |-> f,
          due |-> t + wait, change |-> change]}

\* onChange of the identifier input of form f: setXForm({...form, identifier:
\* value}) and debouncedSearchUser(value, f), the function of this render; the
\* new state renders the component again.
onChange_identifier(f, value) ==
    /\ render < MaxRender
    /\ Len(changes) < MaxChanges
    /\ value # FormOf(f).identifier
    /\ SetForm(f, [FormOf(f) EXCEPT !.identifier = value])
    /\ timeouts' = executedFunction(timeouts, render, value, f, clock, Len(changes) + 1)
    /\ changes' = Append(changes, [identifier |-> value, formType |-> f, at |-> clock])
    /\ render' = render + 1
    /\ UNCHANGED <<dbvars, dashvars, searchResults, loading, error, success,
                   fetches, update_request, clock, searched, posted>>

\* onValueChange of the Identifier Type select of form f; RFID Tag is the
\* only item it offers.
onValueChange_identifierType(f, value) ==
    /\ render < MaxRender
    /\ value # FormOf(f).identifierType
    /\ SetForm(f, [FormOf(f) EXCEPT !.identifierType = value, !.identifier = ""])
    /\ searchResults' = [searchResults EXCEPT ![f] = NoResult]
    /\ render' = render + 1
    /\ UNCHANGED <<dbvars, dashvars, loading, error, success, timeouts, fetches,
                   update_request, clock, changes, searched, posted>>

\* The value field of form f changes: the status select, the active select,
\* the New RFID Tag input.
onChange_value(f, value) ==
    /\ render < MaxRender
    /\ SetForm(f, IF f = "status" THEN [statusForm EXCEPT !.status = value]
                  ELSE IF f = "active" THEN [activeForm EXCEPT !.isActive = value]
                  ELSE [rfidForm EXCEPT !.newRfidTag = value])
    /\ FormOf(f) # (IF f = "status" THEN [statusForm EXCEPT !.status = value]
                    ELSE IF f = "active" THEN [activeForm EXCEPT !.isActive = value]
                    ELSE [rfidForm EXCEPT !.newRfidTag = value])
    /\ render' = render + 1
    /\ UNCHANGED <<dbvars, dashvars, searchResults, loading, error, success,
                   timeouts, fetches, update_request, clock, changes, searched,
                   posted>>

\* later() of the timer t, when it is due: clearTimeout(timeout) and
\* searchUser(identifier, formType) up to its fetch.
later(t) ==
    LET f == t.formType IN
    /\ render < MaxRender
    /\ t \in timeouts
    /\ t.due <= clock
    /\ timeouts' = timeouts \ {t}
    /\ searched' = Append(searched, [identifier |-> t.identifier, formType |-> f,
                                     change |-> t.change])
    /\ IF Trim(t.identifier) = ""
       THEN /\ searchResults' = [searchResults EXCEPT ![f] = NoResult]
            /\ UNCHANGED fetches
       ELSE IF adminToken = NoToken
       THEN /\ searchResults' = [searchResults EXCEPT ![f] =
                   [user |-> "null", loading |-> FALSE, error |-> "Search failed"]]
            /\ UNCHANGED fetches
       ELSE /\ searchResults' = [searchResults EXCEPT ![f].loading = TRUE,
                                                      ![f].error = ""]
            /\ fetches' = fetches \cup {[identifier |-> t.identifier,
                                          formType |-> f, change |-> t.change]}
    /\ render' = render + 1
    /\ UNCHANGED <<dbvars, dashvars, statusForm, activeForm, rfidForm, loading,
                   error, success, update_request, clock, changes, posted>>

\* The response of the search r arrives: the user that matches the identifier
\* searched, no user, or a failure.
searchUser_response(r, result) ==
    /\ render < MaxRender
    /\ r \in fetches
    /\ fetches' = fetches \ {r}
    /\ searchResults' = [searchResults EXCEPT ![r.formType] =
           IF result = "found"
           THEN [user |-> r.identifier, loading |-> FALSE, error |-> ""]
           ELSE IF result = "empty"
           THEN [user |-> "null", loading |-> FALSE, error |-> "User not found"]
           ELSE [user |-> "null", loading |-> FALSE, error |-> "Search failed"]]
    /\ render' = render + 1
    /\ UNCHANGED <<dbvars, dashvars, statusForm, activeForm, rfidForm, loading,
                   error, success, timeouts, update_request, clock, changes,
                   searched, posted>>

\* A quarter of a second passes; a timer that is due runs first.
ClockTick ==
    /\ clock < MaxClock
    /\ \A t \in timeouts : t.due > clock
    /\ clock' = clock + 1
    /\ UNCHANGED <<dbvars, dashvars, statusForm, activeForm, rfidForm,
                   searchResults, loading, error, success, render, timeouts,
                   fetches, update_request, changes, searched, posted>>

\* The request body each submit handler builds.
statusUpdateData ==
    SetProperty([status |-> statusForm.status],
                IF statusForm.identifierType = "nic" THEN "nic" ELSE "rfidTag",
                statusForm.identifier)

activeUpdateData ==
    SetProperty([isActive |-> activeForm.isActive = "true"],
                IF activeForm.identifierType = "nic" THEN "nic" ELSE "rfidTag",
                activeForm.identifier)

rfidUpdateData ==
    SetProperty([rfidTag |-> rfidForm.newRfidTag],
                IF rfidForm.identifierType = "nic" THEN "nic" ELSE "rfidTag",
                rfidForm.identifier)

\* The value field of a form.
ValueOf(f) ==
    IF f = "status" THEN statusForm.status
    ELSE IF f = "active" THEN activeForm.isActive ELSE rfidForm.newRfidTag

\* handleStatusUpdate, handleActiveUpdate, handleRfidUpdate (f names the
\* form): the check of the fields, then updateUser(updateData) up to its
\* fetch.  The submit button is disabled while loading.
handleUpdate(f) ==
    LET updateData == IF f = "status" THEN statusUpdateData
                      ELSE IF f = "active" THEN activeUpdateData
                      ELSE rfidUpdateData
    IN
    /\ render < MaxRender
    /\ ~loading
    /\ IF FormOf(f).identifier = "" \/ ValueOf(f) = ""
       THEN /\ error' = "Please fill in all fields"
            /\ UNCHANGED <<loading, success, update_request, posted>>
       ELSE IF adminToken = NoToken
       THEN /\ error' = "Network error. Please check if the server is running."
            /\ success' = ""
            /\ UNCHANGED <<loading, update_request, posted>>
       ELSE /\ loading' = TRUE
            /\ error' = ""
            /\ success' = ""
            /\ update_request' = <<updateData>>
            /\ posted' = <<[formType |-> f, form |-> FormOf(f), body |-> updateData]>>
    /\ render' = render + 1
    /\ UNCHANGED <<dbvars, dashvars, statusForm, activeForm, rfidForm,
                   searchResults, timeouts, fetches, clock, changes, searched>>

\* The response of the update request arrives: response.ok, a rejection, or
\* a network error.
updateUser_response(result) ==
    /\ render < MaxRender
    /\ update_request # <<>>
    /\ update_request' = <<>>
    /\ loading' = FALSE
    /\ IF result = "ok"
       THEN /\ success' = "User updated successfully!"
            /\ statusForm' = [identifier |-> "", identifierType |-> "nic", status |-> ""]
            /\ activeForm' = [identifier |-> "", identifierType |-> "nic", isActive |-> ""]
            /\ rfidForm' = [identifier |-> "", identifierType |-> "nic", newRfidTag |-> ""]
            /\ searchResults' = [f \in FormTypes |-> NoResult]
            /\ UNCHANGED error
       ELSE /\ error' = IF result = "rejected" THEN "Failed to update user"
                        ELSE "Network error. Please check if the server is running."
            /\ UNCHANGED <<success, statusForm, activeForm, rfidForm, searchResults>>
    /\ render' = render + 1
    /\ UNCHANGED <<dbvars, dashvars, timeouts, fetches, clock, changes, searched,
                   posted>>

\* The database plays no part in the browser: two nodes, empty tables.
InitBrowser ==
    /\ node_count = 2
    /\ users = [n \in AllNodes |-> EmptyTable]
    /\ logs = [n \in AllNodes |-> EmptyTable]
    /\ auto_increment = [n \in AllNodes |-> [t \in AutoTables |-> 1]]
    /\ generated = [n \in AllNodes |-> [t \in Tables |-> {}]]
    /\ sync_metadata = sync_metadata_seed(FALSE)
    /\ InitRest

\* The status form and the RFID form are filled in and submitted.
NextForms ==
    \/ \E f \in {"status", "rfid"}, value \in {"", "A"} : onChange_identifier(f, value)
    \/ \E f \in {"status", "rfid"} : onValueChange_identifierType(f, "rfidTag")
    \/ \E value \in {"", "IN"} : onChange_value("status", value)
    \/ \E value \in {"", "B"} : onChange_value("rfid", value)
    \/ \E f \in {"status", "rfid"} : handleUpdate(f)
    \/ \E result \in {"ok", "rejected", "network"} : updateUser_response(result)

SpecForms == InitBrowser /\ [][NextForms]_vars

\* C25: an update request sent from the Update RFID form identifies the user
\* by the identifier typed and carries the new RFID tag typed as the value to
\* assign.
RfidRequestCarriesNewTag ==
    \A i \in DOMAIN posted :
        posted[i].formType = "rfid" =>
            /\ "rfidTag" \in DOMAIN posted[i].body
            /\ posted[i].body.rfidTag = posted[i].form.newRfidTag
            /\ \E k \in DOMAIN posted[i].body :
                   posted[i].body[k] = posted[i].form.identifier

\* C26: the identifier type of each form is rfidTag, and every update
\* request names the user in its rfidTag field.
IdentifierTypeIsRfidTag ==
    /\ \A f \in FormTypes : FormOf(f).identifierType = "rfidTag"
    /\ \A i \in DOMAIN posted :
           /\ "rfidTag" \in DOMAIN posted[i].body
           /\ "nic" \notin DOMAIN posted[i].body
\* The identifier of the status form is typed, the timers run, the searches
\* are answered.
NextSearch ==
    \/ \E value \in Idents : onChange_identifier("status", value)
    \/ \E t \in timeouts : later(t)
    \/ \E r \in fetches, result \in {"found", "empty", "error"} :
           searchUser_response(r, result)
    \/ ClockTick

SpecSearch == InitBrowser /\ [][NextSearch]_vars

\* No timer and no search of form f is pending.
Settled(f) ==
    /\ {t \in timeouts : t.formType = f} = {}
    /\ {r \in fetches : r.formType = f} = {}

\* C27: once the searches of a form are all answered, the user displayed for
\* the form is the one matching the identifier now in the field, or none, and
\* none if the field is empty.
LatestResultShown ==
    \A f \in FormTypes :
        Settled(f) =>
            /\ searchResults[f].user \in {"null", FormOf(f).identifier}
            /\ FormOf(f).identifier = "" => searchResults[f].user = "null"

\* C28: a value that was searched is not followed by another change of the
\* input less than 500 ms after it: of a burst only the last value is
\* searched.
OneSearchPerBurst ==
    \A k \in DOMAIN searched :
        \A j \in (searched[k].change + 1)..Len(changes) :
            changes[j].at - changes[searched[k].change].at >= wait
-----------------------------------------------------------------------------
(* The dashboard: the logs of the last refresh, their filter and pages.    *)

\* The options of the items-per-page select.
PageSizes == {10, 25, 50, 100}

\* What is typed into the search box; a log matches "x" or it does not.
SearchTerms == {"", "x"}

\* filteredLogs.length: logsData.logs filtered by the search term.
totalItems ==
    IF searchTerm = "" THEN logsData.logs ELSE logsData.matching

\* Math.ceil(totalItems / itemsPerPage)
totalPages == (totalItems + itemsPerPage - 1) \div itemsPerPage

\* getPageNumbers(): the page buttons rendered.
getPageNumbers ==
    IF totalPages <= 5 THEN 1..totalPages
    ELSE IF currentPage <= 3 THEN (1..4) \cup {totalPages}
    ELSE IF currentPage >= totalPages - 2
    THEN {1} \cup ((totalPages - 3)..totalPages)
    ELSE {1, totalPages} \cup ((currentPage - 1)..(currentPage + 1))

\* The state of DashboardContent when it is mounted.
MountDashboard ==
    /\ logsData' = [logs |-> 0, matching |-> 0]
    /\ searchTerm' = ""
    /\ itemsPerPage' = 10
    /\ currentPage' = 1

\* response.ok
ok(status) == status \in 200..299

\* SWR revalidates a key: fetcher(url) up to its fetch; without a token it
\* throws before the fetch.
fetcher ==
    /\ location = "/dashboard"
    /\ adminToken # NoToken
    /\ fetcher_requests < MaxRequests
    /\ fetcher_requests' = fetcher_requests + 1
    /\ UNCHANGED <<dbvars, modalvars, location, adminToken, login_requests,
                   signed_in, logsData, searchTerm, itemsPerPage, currentPage>>

\* The response of a fetcher request arrives: a 401 removes the token and
\* leaves for the login page; response.ok of the logs key with data replaces
\* logsData; any other failure is thrown to SWR.
fetcher_response(status, data) ==
    /\ fetcher_requests > 0
    /\ fetcher_requests' = fetcher_requests - 1
    /\ IF ~ok(status) /\ status = 401
       THEN /\ adminToken' = NoToken
            /\ location' = "/"
            /\ signed_in' = FALSE
            /\ MountDashboard
       ELSE IF ok(status) /\ location = "/dashboard"
       THEN /\ logsData' = data
            /\ UNCHANGED <<adminToken, location, signed_in, searchTerm,
                           itemsPerPage, currentPage>>
       ELSE UNCHANGED <<adminToken, location, signed_in, logsData, searchTerm,
                        itemsPerPage, currentPage>>
    /\ UNCHANGED <<dbvars, modalvars, login_requests>>

\* onChange of the search box, and the effect on the filters that follows
\* the render: setCurrentPage(1).
setSearchTerm(value) ==
    /\ location = "/dashboard"
    /\ value # searchTerm
    /\ searchTerm' = value
    /\ currentPage' = 1
    /\ UNCHANGED <<dbvars, modalvars, location, adminToken, login_requests,
                   fetcher_requests, signed_in, logsData, itemsPerPage>>

\* onChange of the items-per-page select.
setItemsPerPage(value) ==
    /\ location = "/dashboard"
    /\ value # itemsPerPage
    /\ itemsPerPage' = value
    /\ currentPage' = 1
    /\ UNCHANGED <<dbvars, modalvars, location, adminToken, login_requests,
                   fetcher_requests, signed_in, logsData, searchTerm>>

\* A page button is clicked; the buttons are rendered when totalPages > 1.
handlePageChange(page) ==
    /\ location = "/dashboard"
    /\ totalPages > 1
    /\ page \in getPageNumbers
    /\ currentPage' = page
    /\ UNCHANGED <<dbvars, modalvars, location, adminToken, login_requests,
                   fetcher_requests, signed_in, logsData, searchTerm,
                   itemsPerPage>>

handlePreviousPage ==
    /\ location = "/dashboard"
    /\ totalPages > 1
    /\ currentPage # 1
    /\ currentPage > 1
    /\ currentPage' = currentPage - 1
    /\ UNCHANGED <<dbvars, modalvars, location, adminToken, login_requests,
                   fetcher_requests, signed_in, logsData, searchTerm,
                   itemsPerPage>>

handleNextPage ==
    /\ location = "/dashboard"
    /\ totalPages > 1
    /\ currentPage # totalPages
    /\ currentPage < totalPages
    /\ currentPage' = currentPage + 1
    /\ UNCHANGED <<dbvars, modalvars, location, adminToken, login_requests,
                   fetcher_requests, signed_in, logsData, searchTerm,
                   itemsPerPage>>

\* The logs a refresh can return: up to MaxLogs logs, some of them matching.
LogsResponses ==
    {d \in [logs : 0..MaxLogs, matching : 0..MaxLogs] : d.matching <= d.logs}

\* The logs are refreshed, filtered and paged.
NextPages ==
    \/ fetcher
    \/ \E status \in {200, 500}, data \in LogsResponses : fetcher_response(status, data)
    \/ \E value \in SearchTerms : setSearchTerm(value)
    \/ \E value \in PageSizes : setItemsPerPage(value)
    \/ \E page \in 1..MaxLogs : handlePageChange(page)
    \/ handlePreviousPage
    \/ handleNextPage

SpecPages == InitBrowser /\ [][NextPages]_vars

\* C29: currentPage is within 1..max(1, totalPages).
CurrentPageInRange ==
    currentPage \in 1..(IF totalPages > 1 THEN totalPages ELSE 1)
-----------------------------------------------------------------------------
(* The admin token in localStorage: login, logout, 401.                    *)

\* data.token of a login response; "null" when the response carries none.
Tokens == {"token", "token2"}

\* A login that stores whatever the response carries.
LoginStoresAlways(response_ok, token) == TRUE

\* if (response.ok && data.token)
LoginStores(response_ok, token) == response_ok /\ token # NoToken

\* handleLogin up to its fetch.
handleLogin ==
    /\ location = "/"
    /\ login_requests < MaxRequests
    /\ login_requests' = login_requests + 1
    /\ UNCHANGED <<dbvars, modalvars, location, adminToken, fetcher_requests,
                   signed_in, logsData, searchTerm, itemsPerPage, currentPage>>

\* The response of a login request arrives.  signed_in records that the
\* last of login success, logout and 401 was a login success.
handleLogin_response(response_ok, token) ==
    /\ login_requests > 0
    /\ login_requests' = login_requests - 1
    /\ signed_in' = IF response_ok /\ token # NoToken THEN TRUE ELSE signed_in
    /\ IF LoginStores(response_ok, token)
       THEN /\ adminToken' = token
            /\ location' = "/dashboard"
            /\ MountDashboard
       ELSE UNCHANGED <<adminToken, location, logsData, searchTerm,
                        itemsPerPage, currentPage>>
    /\ UNCHANGED <<dbvars, modalvars, fetcher_requests>>

\* /dashboard is opened: the effect on mount sends a browser without a
\* token back to the login page.
Dashboard_mount ==
    /\ location = "/"
    /\ location' = IF adminToken = NoToken THEN "/" ELSE "/dashboard"
    /\ MountDashboard
    /\ UNCHANGED <<dbvars, modalvars, adminToken, login_requests,
                   fetcher_requests, signed_in>>

\* The login page is opened from the dashboard; it does not look at the
\* token.
AuthPage_mount ==
    /\ location = "/dashboard"
    /\ location' = "/"
    /\ MountDashboard
    /\ UNCHANGED <<dbvars, modalvars, adminToken, login_requests,
                   fetcher_requests, signed_in>>

handleLogout ==
    /\ location = "/dashboard"
    /\ adminToken' = NoToken
    /\ location' = "/"
    /\ signed_in' = FALSE
    /\ MountDashboard
    /\ UNCHANGED <<dbvars, modalvars, login_requests, fetcher_requests>>

\* Logins, dashboard fetches with their responses, logouts.
NextToken ==
    \/ handleLogin
    \/ \E response_ok \in BOOLEAN, token \in Tokens \cup {NoToken} :
           handleLogin_response(response_ok, token)
    \/ Dashboard_mount
    \/ AuthPage_mount
    \/ fetcher
    \/ \E status \in {200, 401, 500}, data \in LogsResponses :
           fetcher_response(status, data)
    \/ handleLogout

SpecToken == InitBrowser /\ [][NextToken]_vars

\* C30: a token is in storage exactly when the last of login success, logout
\* and 401 response was a login whose response was ok and carried a token.
TokenOnlyWhileSignedIn ==
    (adminToken # NoToken) <=> signed_in

\* A login stored a token other than the one the browser started with.
TokenOnlyWhileSignedInWitness ==
    /\ adminToken = "token2"
    /\ signed_in
    /\ location = "/dashboard"
====
